---- MODULE Spec2Model ----
(***************************************************************************)
(* Model of Convert-Sitemap-To-TXT.py: main(input_txt) reads a list of     *)
(* URLs, validates each one with is_valid_url, scrapes every valid URL     *)
(* with extract_text_by_tag and writes a report file and a log file.       *)
(*                                                                         *)
(* Text is a sequence of characters.  A literal of the source that is      *)
(* never inspected character by character is written as one element (the   *)
(* emoji of the source are left out of these literals).  A text of several *)
(* lines is the sequence of its lines, i.e. the text split at "\n".        *)
(***************************************************************************)
EXTENDS Integers, Sequences, FiniteSets, TLC

VARIABLES
  input_txt,     \* the input file: [exists, lines]
  pc,            \* position of main: "read", "select_dir", "validate", "scrape", "save_log", "done"
  exit,          \* how main ended: "running", "cancelled", "aborted", "delivered", "raised"
  urls,          \* main: urls
  i_validate,    \* main: number of completed iterations of the validation loop
  log_lines,     \* main: log_lines
  valid_urls,    \* main: valid_urls
  results,       \* main: results
  i_scrape,      \* main: number of completed iterations of the scraping loop
  output_file,   \* file output_txt: <<>> when absent, <<content>> when written
  log_file,      \* file log_txt: <<>> when absent, <<lines>> when written
  net,           \* the requests issued so far, with what the network answered
  clock,         \* number of datetime.now() calls so far
  popups,        \* titles passed to show_popup, in order
  progress_var,  \* value of the progress bar
  output_root,   \* main: output_root (<<>> before a folder is selected)
  args,          \* a single call of extract_text_by_tag: its arguments
  ret            \* a single call of extract_text_by_tag: its result (<<>> before the call)

vars == <<input_txt, pc, exit, urls, i_validate, log_lines, valid_urls, results,
          i_scrape, output_file, log_file, net, clock, popups, progress_var, output_root,
          args, ret>>

mainVars == <<input_txt, pc, exit, urls, i_validate, log_lines, valid_urls, results,
              i_scrape, output_file, log_file, net, clock, popups, progress_var,
              output_root>>

----------------------------------------------------------------------------
(* Bounds and sample inputs *)

MaxLines == 3   \* lines of the input file
MaxElems == 2   \* elements of a page given to a single call of extract_text_by_tag

U_http_a  == <<"h","t","t","p",":","/","/","a">>
U_https_b == <<"h","t","t","p","s",":","/","/","b">>
U_ftp     == <<"f","t","p",":","/","/","x">>
U_not     == <<"n","o","t","-","a","-","u","r","l">>
U_norest  == <<"h","t","t","p",":","/","/">>

RawLines == { <<>>, <<" ">>, U_http_a, <<" ">> \o U_https_b \o <<" ">>,
              U_ftp, U_not, U_norest }

SeqsUpTo(S, n) == UNION { [1..k -> S] : k \in 0..n }

InputFiles == { [exists |-> FALSE, lines |-> <<>>] }
                \cup { [exists |-> TRUE, lines |-> l] : l \in SeqsUpTo(RawLines, MaxLines) }

InputName == <<"sitemap", ".txt">>
Folders == { <<>>, <<"C:/out">> }

----------------------------------------------------------------------------
(* str.strip and the regular expression of is_valid_url *)

Whitespace == {" ", "\t"}

RECURSIVE lstrip(_)
lstrip(s) == IF s # <<>> /\ Head(s) \in Whitespace THEN lstrip(Tail(s)) ELSE s

RECURSIVE rstrip(_)
rstrip(s) == IF s # <<>> /\ s[Len(s)] \in Whitespace
             THEN rstrip(SubSeq(s, 1, Len(s) - 1)) ELSE s

strip(s) == rstrip(lstrip(s))

StartsWith(s, p) == Len(s) >= Len(p) /\ SubSeq(s, 1, Len(p)) = p

Drop(s, n) == SubSeq(s, n + 1, Len(s))

\* the pattern written with .* for .+
Mut_pattern_match(url) ==
  /\ StartsWith(url, <<"h","t","t","p">>)
  /\ LET r1 == Drop(url, 4)
         r2 == IF StartsWith(r1, <<"s">>) THEN Drop(r1, 1) ELSE r1
     IN StartsWith(r2, <<":","/","/">>)

\* re.compile(r'^https?://.+').match(url)
pattern_match(url) ==
  /\ StartsWith(url, <<"h","t","t","p">>)
  /\ LET r1 == Drop(url, 4)
         r2 == IF StartsWith(r1, <<"s">>) THEN Drop(r1, 1) ELSE r1
     IN /\ StartsWith(r2, <<":","/","/">>)
        /\ Len(r2) >= 4
        /\ r2[4] # "\n"

----------------------------------------------------------------------------
(* The network: what requests.head and requests.get may answer *)

NoSoup == <<>>

Response(status, soup) == [kind |-> "response", status |-> status, msg |-> <<>>, soup |-> soup]
Raises(kind, msg) == [kind |-> kind, status |-> 0, msg |-> msg, soup |-> NoSoup]

\* an exception of the requests.RequestException hierarchy (timeout, DNS failure,
\* refused connection, TLS error), and one outside of it
RequestException == Raises("RequestException", <<"timed out">>)
OtherException   == Raises("Exception", <<"label empty or too long">>)

ProbeStatuses == {200, 400}
FetchStatuses == {200, 300, 400, 600}

ProbeOutcomes == { Response(s, NoSoup) : s \in ProbeStatuses }
                   \cup { RequestException, OtherException }

Element(tag, strings) == [tag |-> tag, strings |-> strings]

\* <p>World</p><h1>Hello</h1>
HelloPage == << Element("p", << <<"W","o","r","l","d">> >>),
                Element("h1", << <<"H","e","l","l","o">> >>) >>

SamplePages == { <<>>, HelloPage }

FetchOutcomes == { Response(s, page) : s \in FetchStatuses, page \in SamplePages }
                   \cup { RequestException, OtherException }

Request(method, url, answer) ==
  [method |-> method, url |-> url, kind |-> answer.kind, status |-> answer.status]

----------------------------------------------------------------------------
(* is_valid_url *)

LogLine(now, tag, url, info) == [ts |-> now, tag |-> tag, url |-> url, info |-> info]

\* the entry put in front of the log
Mut_log_append(lines, entry) == <<entry>> \o lines

\* log_lines.append(...)
log_append(lines, entry) == Append(lines, entry)

\* is_valid_url(url, log_lines) with the probe answered by `probe` at time `now`:
\* the value returned, log_lines afterwards, the requests issued, and whether an
\* exception left the function
is_valid_url(url, lines, probe, now) ==
  IF ~pattern_match(url)
  THEN [ret |-> FALSE, raised |-> FALSE, requests |-> <<>>,
        log_lines |-> log_append(lines, LogLine(now, "Invalid format", url, <<>>))]
  ELSE LET head == << Request("HEAD", url, probe) >> IN
       CASE probe.kind = "response" /\ probe.status >= 400 ->
              [ret |-> FALSE, raised |-> FALSE, requests |-> head,
               log_lines |-> log_append(lines, LogLine(now, "Unreachable", url,
                                                       <<ToString(probe.status)>>))]
         [] probe.kind = "RequestException" ->
              [ret |-> FALSE, raised |-> FALSE, requests |-> head,
               log_lines |-> log_append(lines, LogLine(now, "Exception", url, probe.msg))]
         [] probe.kind = "response" /\ probe.status < 400 ->
              [ret |-> TRUE, raised |-> FALSE, requests |-> head,
               log_lines |-> log_append(lines, LogLine(now, "Valid", url, <<>>))]
         [] OTHER ->
              \* except requests.RequestException: any other exception leaves the function
              [ret |-> FALSE, raised |-> TRUE, requests |-> head, log_lines |-> lines]

----------------------------------------------------------------------------
(* extract_text_by_tag *)

TagOrder == <<"title", "h1", "h2", "h3", "p", "li">>

MARKDOWN_TAGS ==
  [t \in {"title", "h1", "h2", "h3", "p", "li"} |->
     CASE t \in {"title", "h1"} -> <<"#">>
       [] t = "h2" -> <<"#", "#">>
       [] t = "h3" -> <<"#", "#", "#">>
       [] t = "p"  -> <<>>
       [] t = "li" -> <<"-">>]

\* MARKDOWN_TAGS.get(tag, '')
markdown_prefix(tag) == IF tag \in DOMAIN MARKDOWN_TAGS THEN MARKDOWN_TAGS[tag] ELSE <<>>

\* raise_for_status left out
Mut_raise_for_status(status) == FALSE

\* response.raise_for_status() raises
raise_for_status(status) == 400 <= status /\ status < 600

\* str(e) of the HTTPError of raise_for_status
http_error_msg(status, url) == <<ToString(status), " Error for url: ">> \o url

\* soup.find_all(tag): the elements of that tag, in document order
find_all(soup, tag) == SelectSeq(soup, LAMBDA e : e.tag = tag)

\* element.get_text(strip=True): every string of the element stripped, the empty
\* ones dropped, the rest joined with ""
RECURSIVE get_text(_)
get_text(strings) ==
  IF strings = <<>> THEN <<>>
  ELSE strip(Head(strings)) \o get_text(Tail(strings))

\* f"{prefix} {text}" if prefix else text
format_line(prefix, text) == IF prefix # <<>> THEN prefix \o <<" ">> \o text ELSE text

\* for element in soup.find_all(tag): ...
RECURSIVE element_loop(_, _, _)
element_loop(output, elements, tag) ==
  IF elements = <<>> THEN output
  ELSE LET text == get_text(Head(elements).strings)
           out1 == IF text # <<>>
                   THEN Append(output, format_line(markdown_prefix(tag), text))
                   ELSE output
       IN element_loop(out1, Tail(elements), tag)

\* the elements taken in document order, whatever their tag
RECURSIVE Mut_tag_loop(_, _, _)
Mut_tag_loop(output, soup, tags) ==
  IF soup = <<>> THEN output
  ELSE IF Head(soup).tag \in { tags[k] : k \in DOMAIN tags }
       THEN Mut_tag_loop(element_loop(output, <<Head(soup)>>, Head(soup).tag),
                         Tail(soup), tags)
       ELSE Mut_tag_loop(output, Tail(soup), tags)

\* for tag in tags_to_extract: ...
RECURSIVE tag_loop(_, _, _)
tag_loop(output, soup, tags) ==
  IF tags = <<>> THEN output
  ELSE tag_loop(element_loop(output, find_all(soup, Head(tags)), Head(tags)),
                soup, Tail(tags))

Rule == <<"---">>
Blank == <<>>

\* the error text without its closing rule
Mut_error_section(url, msg) ==
  << Blank, Rule, <<"**Error accessing ">> \o url \o <<"**: ">> \o msg >>

\* f"\n---\n Error accessing {url}**: {str(e)}\n---\n"
error_section(url, msg) ==
  << Blank, Rule, <<"**Error accessing ">> \o url \o <<"**: ">> \o msg, Rule, Blank >>

\* the first two entries of output: "\n---\n### URL: [{url}]({url})", "Scraped at: {timestamp}\n"
section_header(url, now) ==
  << Blank, Rule, <<"### URL: [">> \o url \o <<"](">> \o url \o <<")">>,
     <<"Scraped at: ", ToString(now)>>, Blank >>

\* output.append("\n---\n")
section_footer == << Blank, Rule, Blank >>

\* extract_text_by_tag(url, tags_to_extract) with the fetch answered by `fetch` at
\* time `now`: the text returned, as its lines
extract_text_by_tag(url, tags_to_extract, fetch, now) ==
  IF fetch.kind # "response" THEN error_section(url, fetch.msg)
  ELSE IF raise_for_status(fetch.status)
       THEN error_section(url, http_error_msg(fetch.status, url))
       ELSE tag_loop(section_header(url, now), fetch.soup, tags_to_extract)
              \o section_footer

\* the except branch of extract_text_by_tag is taken (datetime.now() is not reached)
fetch_fails(fetch) == fetch.kind # "response" \/ raise_for_status(fetch.status)

----------------------------------------------------------------------------
(* main *)

\* update_progress: int((current / total) * 100)
update_progress(current, total) == (current * 100) \div total

\* urls = [line.strip() for line in f if line.strip()]
RECURSIVE read_urls(_)
read_urls(lines) ==
  IF lines = <<>> THEN <<>>
  ELSE IF strip(Head(lines)) # <<>>
       THEN <<strip(Head(lines))>> \o read_urls(Tail(lines))
       ELSE read_urls(Tail(lines))

\* os.path.splitext(os.path.basename(input_txt))[0]
base_name == <<InputName[1]>>

\* timestamp = datetime.now().strftime(...), taken at the first datetime.now() call
run_timestamp == ToString(0)

\* os.path.join(output_root, f"{timestamp}-{base_name}")
final_output_dir(root_dir) == root_dir \o <<"/", run_timestamp, "-">> \o base_name

output_txt(root_dir) ==
  final_output_dir(root_dir) \o <<"/">> \o base_name \o <<"-full_text_output.txt">>

\* the valid URL put in front
Mut_collect_valid(valid, url, ok) == IF ok THEN <<url>> \o valid ELSE valid

\* if is_valid_url(url, log_lines): valid_urls.append(url)
collect_valid(valid, url, ok) == IF ok THEN Append(valid, url) ELSE valid

\* results.append(extract_text_by_tag(url, ...))
collect_result(res, section) == Append(res, section)

\* every scanned URL counted as skipped
Mut_summary_lines(now, all_urls, valid) ==
  [run_date |-> now, input_file |-> InputName,
   scanned |-> Len(all_urls), scraped |-> Len(valid),
   skipped |-> Len(all_urls)]

\* the counts of summary_lines, with the run date and the input file name
summary_lines(now, all_urls, valid) ==
  [run_date |-> now, input_file |-> InputName,
   scanned |-> Len(all_urls), scraped |-> Len(valid),
   skipped |-> Len(all_urls) - Len(valid)]

\* '\n'.join(summary_lines) + '\n\n' + '\n\n'.join(results)
report_text(summary, res) == [summary |-> summary, sections |-> res]

\* the No valid URLs entry left out
Mut_no_valid_entry(lines, now) == lines

\* log_lines.append(f"[{datetime.now()}] No valid URLs to process.")
no_valid_entry(lines, now) == Append(lines, LogLine(now, "No valid URLs", <<>>, <<>>))

\* log_lines.append(f"[{datetime.now()}] Scraping complete. Output saved to {output_txt}")
complete_entry(lines, now, path) == Append(lines, LogLine(now, "Scraping complete", <<>>, path))

InitMain(file) ==
  /\ input_txt = file
  /\ pc = "read"
  /\ exit = "running"
  /\ urls = <<>>
  /\ i_validate = 0
  /\ log_lines = <<>>
  /\ valid_urls = <<>>
  /\ results = <<>>
  /\ i_scrape = 0
  /\ output_file = <<>>
  /\ log_file = <<>>
  /\ net = <<>>
  /\ clock = 0
  /\ popups = <<>>
  /\ progress_var = 0
  /\ output_root = <<>>

Init ==
  /\ \E file \in InputFiles : InitMain(file)
  /\ args = <<>>
  /\ ret = <<>>

\* lines 118-126: open and read the input file; open raises when it is missing
ReadUrls ==
  /\ pc = "read"
  /\ IF input_txt.exists
     THEN /\ urls' = read_urls(input_txt.lines)
          /\ clock' = clock + 1
          /\ pc' = "select_dir"
          /\ exit' = exit
     ELSE /\ pc' = "done"
          /\ exit' = "raised"
          /\ UNCHANGED <<urls, clock>>
  /\ UNCHANGED <<input_txt, i_validate, log_lines, valid_urls, results, i_scrape,
                 output_file, log_file, net, popups, progress_var, output_root, args, ret>>

\* lines 128-148: ask for the output folder; return when none is selected
SelectOutput ==
  /\ pc = "select_dir"
  /\ \E folder \in Folders :
       /\ output_root' = folder
       /\ IF folder = <<>>
          THEN /\ popups' = Append(popups, "Cancelled")
               /\ pc' = "done"
               /\ exit' = "cancelled"
          ELSE /\ pc' = "validate"
               /\ UNCHANGED <<popups, exit>>
  /\ UNCHANGED <<input_txt, urls, i_validate, log_lines, valid_urls, results, i_scrape,
                 output_file, log_file, net, clock, progress_var, args, ret>>

\* lines 151-154: one iteration of the validation loop
ValidateNext ==
  /\ pc = "validate"
  /\ i_validate < Len(urls)
  /\ \E probe \in ProbeOutcomes :
       LET url == urls[i_validate + 1]
           v == is_valid_url(url, log_lines, probe, clock)
       IN /\ net' = net \o v.requests
          /\ log_lines' = v.log_lines
          /\ IF v.raised
             THEN /\ pc' = "done"
                  /\ exit' = "raised"
                  /\ UNCHANGED <<valid_urls, i_validate, progress_var, clock>>
             ELSE /\ valid_urls' = collect_valid(valid_urls, url, v.ret)
                  /\ i_validate' = i_validate + 1
                  /\ progress_var' = update_progress(i_validate + 1, Len(urls))
                  /\ clock' = clock + 1
                  /\ UNCHANGED <<pc, exit>>
  /\ UNCHANGED <<input_txt, urls, results, i_scrape, output_file, log_file, popups,
                 output_root, args, ret>>

\* lines 157-163: no valid URL: write the log and return
NoValidUrls ==
  /\ pc = "validate"
  /\ i_validate = Len(urls)
  /\ valid_urls = <<>>
  /\ log_lines' = no_valid_entry(log_lines, clock)
  /\ clock' = clock + 1
  /\ log_file' = <<log_lines'>>
  /\ popups' = Append(popups, "No Valid URLs")
  /\ pc' = "done"
  /\ exit' = "aborted"
  /\ UNCHANGED <<input_txt, urls, i_validate, valid_urls, results, i_scrape, output_file,
                 net, progress_var, output_root, args, ret>>

\* scraping started as soon as one URL is valid
Mut_StartScrape ==
  /\ pc = "validate"
  /\ valid_urls # <<>>
  /\ results' = <<>>
  /\ pc' = "scrape"
  /\ UNCHANGED <<input_txt, exit, urls, i_validate, log_lines, valid_urls, i_scrape,
                 output_file, log_file, net, clock, popups, progress_var, output_root, args, ret>>

\* line 166: the validation loop is over and some URL is valid
StartScrape ==
  /\ pc = "validate"
  /\ i_validate = Len(urls)
  /\ valid_urls # <<>>
  /\ results' = <<>>
  /\ pc' = "scrape"
  /\ UNCHANGED <<input_txt, exit, urls, i_validate, log_lines, valid_urls, i_scrape,
                 output_file, log_file, net, clock, popups, progress_var, output_root, args, ret>>

\* lines 167-169: one iteration of the scraping loop
ScrapeNext ==
  /\ pc = "scrape"
  /\ i_scrape < Len(valid_urls)
  /\ \E fetch \in FetchOutcomes :
       LET url == valid_urls[i_scrape + 1] IN
       /\ net' = Append(net, Request("GET", url, fetch))
       /\ results' = collect_result(results, extract_text_by_tag(url, TagOrder, fetch, clock))
       /\ clock' = IF fetch_fails(fetch) THEN clock ELSE clock + 1
  /\ i_scrape' = i_scrape + 1
  /\ progress_var' = update_progress(i_scrape + 1, Len(valid_urls))
  /\ UNCHANGED <<input_txt, pc, exit, urls, i_validate, log_lines, valid_urls,
                 output_file, log_file, popups, output_root, args, ret>>

\* lines 172-183: build the summary and write the report
WriteReport ==
  /\ pc = "scrape"
  /\ i_scrape = Len(valid_urls)
  /\ output_file' = << report_text(summary_lines(clock, urls, valid_urls), results) >>
  /\ clock' = clock + 1
  /\ pc' = "save_log"
  /\ UNCHANGED <<input_txt, exit, urls, i_validate, log_lines, valid_urls, results,
                 i_scrape, log_file, net, popups, progress_var, output_root, args, ret>>

\* lines 186-192: write the log and notify the user
SaveLog ==
  /\ pc = "save_log"
  /\ log_lines' = complete_entry(log_lines, clock, output_txt(output_root))
  /\ clock' = clock + 1
  /\ log_file' = <<log_lines'>>
  /\ popups' = Append(popups, "Scraping Complete")
  /\ pc' = "done"
  /\ exit' = "delivered"
  /\ UNCHANGED <<input_txt, urls, i_validate, valid_urls, results, i_scrape, output_file,
                 net, progress_var, output_root, args, ret>>

Next ==
  \/ ReadUrls
  \/ SelectOutput
  \/ ValidateNext
  \/ NoValidUrls
  \/ StartScrape
  \/ ScrapeNext
  \/ WriteReport
  \/ SaveLog

Spec == Init /\ [][Next]_vars

----------------------------------------------------------------------------
(* A single call of extract_text_by_tag on every page of up to MaxElems elements *)

PageTags == {"title", "h1", "h2", "h3", "p", "li", "div"}

\* the strings of an element: blank, padded, and split over nested children
PageStrings == { << <<" ">> >>,
                 << <<" ", "a", " ">> >>,
                 << <<"b", " ">>, <<" ">>, <<"c">> >> }

Pages == SeqsUpTo({ Element(t, s) : t \in PageTags, s \in PageStrings }, MaxElems)

PageOutcomes == { Response(s, page) : s \in FetchStatuses, page \in Pages }
                  \cup { RequestException, OtherException }

InitExtract ==
  /\ InitMain([exists |-> TRUE, lines |-> <<>>])
  /\ args \in { [url |-> u, fetch |-> f, now |-> 0] : u \in {U_http_a}, f \in PageOutcomes }
  /\ ret = <<>>

CallExtract ==
  /\ args # <<>>
  /\ ret = <<>>
  /\ ret' = extract_text_by_tag(args.url, TagOrder, args.fetch, args.now)
  /\ UNCHANGED <<args, mainVars>>

NextExtract == CallExtract

SpecExtract == InitExtract /\ [][NextExtract]_vars

----------------------------------------------------------------------------
(* Reading the program's output back *)

Range(f) == { f[k] : k \in DOMAIN f }

IsPrefix(a, b) == Len(a) <= Len(b) /\ SubSeq(b, 1, Len(a)) = a

OutcomeTags == {"Invalid format", "Unreachable", "Exception", "Valid"}

\* the input URLs whose log line says Valid, in input order
RECURSIVE PassedUrls(_)
PassedUrls(n) ==
  IF n = 0 THEN <<>>
  ELSE IF log_lines[n].tag = "Valid"
       THEN Append(PassedUrls(n - 1), urls[n])
       ELSE PassedUrls(n - 1)

\* the place of the first multi-character literal after the opening one in a line
FirstLiteral(line) ==
  CHOOSE k \in 2..Len(line) :
    /\ line[k] \in {"](", "**: "}
    /\ \A m \in 2..(k - 1) : line[m] \notin {"](", "**: "}

\* the URL a section names in its third line
SectionUrl(section) == SubSeq(section[3], 2, FirstLiteral(section[3]) - 1)

IsErrorSection(section) ==
  /\ Len(section) = 5
  /\ section[3] # <<>>
  /\ section[3][1] = "**Error accessing "

IsPageSection(section) ==
  /\ Len(section) >= 8
  /\ section[3] # <<>>
  /\ section[3][1] = "### URL: ["

\* the lines between the header and the footer of a page section
ContentLines(section) == SubSeq(section, 6, Len(section) - 3)

Gets == SelectSeq(net, LAMBDA r : r.method = "GET")

Written(file) == file # <<>>

----------------------------------------------------------------------------
(* C1 *)

\* C1: the report holds one section per URL that passed validation, and the
\* sections name those URLs in input order, duplicates kept, whether or not an
\* extraction failed.
C1_SectionsFollowInput ==
  Written(output_file) =>
    LET sections == output_file[1].sections
        passed == PassedUrls(Len(urls))
    IN /\ Len(sections) = Len(passed)
       /\ \A k \in 1..Len(sections) :
            /\ IsErrorSection(sections[k]) \/ IsPageSection(sections[k])
            /\ SectionUrl(sections[k]) = passed[k]

C1_Witness ==
  /\ Written(output_file)
  /\ Len(urls) = 3
  /\ urls[1] = urls[3]
  /\ urls[2] # urls[1]
  /\ log_lines[2].tag = "Exception"
  /\ Len(output_file[1].sections) = 2
  /\ IsErrorSection(output_file[1].sections[1])
  /\ IsPageSection(output_file[1].sections[2])

----------------------------------------------------------------------------
(* C2 *)

\* the input lines that hold something other than white space
NonBlankLines ==
  { k \in 1..Len(input_txt.lines) :
      \E m \in 1..Len(input_txt.lines[k]) : input_txt.lines[k][m] \notin Whitespace }

ValidatedAs(tags) == { k \in 1..Len(urls) : log_lines[k].tag \in tags }

\* C2: in every report written, scraped + skipped = scanned, scanned is the number
\* of non-blank input lines, scraped is the number of URLs that passed validation
\* and of sections, skipped is the number of URLs that failed validation, and no
\* count is negative.
C2_CountsAddUp ==
  Written(output_file) =>
    LET summary == output_file[1].summary IN
    /\ summary.scraped + summary.skipped = summary.scanned
    /\ summary.scanned = Cardinality(NonBlankLines)
    /\ summary.scraped = Cardinality(ValidatedAs({"Valid"}))
    /\ summary.scraped = Len(output_file[1].sections)
    /\ summary.skipped = Cardinality(ValidatedAs(OutcomeTags \ {"Valid"}))
    /\ summary.scanned >= 0 /\ summary.scraped >= 0 /\ summary.skipped >= 0

C2_Witness ==
  /\ Written(output_file)
  /\ Len(input_txt.lines) = 3
  /\ output_file[1].summary.scanned = 2
  /\ output_file[1].summary.scraped = 1
  /\ output_file[1].summary.skipped = 1

----------------------------------------------------------------------------
(* C3 *)

\* main has called is_valid_url on every input URL and each call returned: the run
\* did not end before or inside the validation loop
ValidationOver ==
  /\ pc \in {"validate", "scrape", "save_log", "done"}
  /\ exit \notin {"cancelled", "raised"}
  /\ i_validate = Len(urls)

NoUrlPassed == ValidationOver /\ ValidatedAs({"Valid"}) = {}

C3_AbortState ==
  NoUrlPassed =>
    /\ ~Written(output_file)
    /\ results = <<>>
    /\ Gets = <<>>
    /\ pc \in {"validate", "done"}
    /\ pc = "validate" => ~Written(log_file)
    /\ pc = "done" =>
         /\ exit = "aborted"
         /\ Written(log_file)
         /\ Len(log_file[1]) = Len(urls) + 1
         /\ log_file[1][Len(urls) + 1].tag = "No valid URLs"
         /\ \A k \in 1..Len(urls) :
              /\ log_file[1][k].url = urls[k]
              /\ log_file[1][k].tag \in OutcomeTags \ {"Valid"}

\* from line 157 with nothing valid, main returns
C3_AbortStep ==
  (NoUrlPassed /\ pc = "validate") => (pc' = "done" /\ exit' = "aborted")

----------------------------------------------------------------------------
(* C4 *)

ErrorSectionOnly(section) ==
  /\ IsErrorSection(section)
  /\ section[1] = Blank /\ section[2] = Rule /\ section[4] = Rule /\ section[5] = Blank
  /\ Len(section[3]) >= 1

RunContinues ==
  /\ Len(Gets) = Len(results)
  /\ results # <<>> => exit \in {"running", "delivered"}
  /\ Written(output_file) => Len(output_file[1].sections) = Len(valid_urls)

\* C4 as stated: a fetch that raises or answers with a status outside 200..299
\* gives an error section without content lines, and the run continues.
C4_Non2xxIsError ==
  /\ \A k \in 1..Len(results) :
       (Gets[k].kind # "response" \/ Gets[k].status \notin 200..299)
         => ErrorSectionOnly(results[k])
  /\ RunContinues

\* C4 amended: a fetch that raises or answers with a status in 400..599 gives an
\* error section without content lines, any other answer gives a page section, and
\* the run continues with the remaining URLs.
C4_FailedFetchIsError ==
  /\ \A k \in 1..Len(results) :
       IF Gets[k].kind # "response" \/ Gets[k].status \in 400..599
       THEN ErrorSectionOnly(results[k])
       ELSE IsPageSection(results[k])
  /\ RunContinues

C4_Witness ==
  /\ Written(output_file)
  /\ Len(results) = 2
  /\ Gets[1].kind = "RequestException"
  /\ ErrorSectionOnly(results[1])
  /\ Gets[2].status = 200
  /\ ContentLines(results[2]) # <<>>

----------------------------------------------------------------------------
(* C5 *)

\* C5: a failure of the probe is a not-valid result with one log line and is never
\* raised: only a missing input file ends the run with an exception.
C5_ProbeFailureIsData ==
  /\ exit = "raised" => ~input_txt.exists
  /\ Cardinality({ k \in 1..Len(net) : net[k].method = "HEAD" /\ net[k].kind # "response" })
       = Cardinality({ k \in 1..Len(log_lines) : log_lines[k].tag = "Exception" })

----------------------------------------------------------------------------
(* C6 *)

Scheme == { <<"h","t","t","p">>, <<"h","t","t","p","s">> }

\* scheme://<non-empty rest> with scheme http or https
WellFormed(url) ==
  \E scheme \in Scheme :
    /\ Len(url) > Len(scheme) + 3
    /\ SubSeq(url, 1, Len(scheme) + 3) = scheme \o <<":", "/", "/">>

\* C6: a malformed URL gets the Invalid format log line, is not valid, and no
\* request is ever issued for it.
C6_MalformedNeverRequested ==
  /\ i_validate <= Len(log_lines)
  /\ \A k \in 1..i_validate :
       ~WellFormed(urls[k]) =>
          /\ log_lines[k].tag = "Invalid format"
          /\ log_lines[k].url = urls[k]
  /\ \A k \in 1..Len(valid_urls) : WellFormed(valid_urls[k])
  /\ \A k \in 1..Len(net) : WellFormed(net[k].url)

C6_Witness ==
  /\ exit = "delivered"
  /\ Len(urls) = 3
  /\ urls[1] = U_ftp
  /\ urls[2] = U_norest
  /\ log_lines[2].tag = "Invalid format"
  /\ Len(net) = 2

----------------------------------------------------------------------------
(* C7 *)

Called == ret # <<>>

FetchedPage ==
  /\ Called
  /\ args.fetch.kind = "response"
  /\ args.fetch.status \notin 400..599

\* the lines of the elements of one tag: document order, blank ones skipped
LinesOf(soup, tag) ==
  LET kept == SelectSeq(soup, LAMBDA e : e.tag = tag /\ get_text(e.strings) # <<>>)
  IN [k \in 1..Len(kept) |->
        IF MARKDOWN_TAGS[tag] # <<>>
        THEN MARKDOWN_TAGS[tag] \o <<" ">> \o get_text(kept[k].strings)
        ELSE get_text(kept[k].strings)]

\* C7: the content lines of a fetched page are the lines of its title elements,
\* then h1, h2, h3, p and li, each group in document order, blank elements
\* skipped, each line the prefix, a space and the text, or the bare text when the
\* prefix is empty; so every h1 line comes before every p line.
C7_LinesByTagOrder ==
  FetchedPage =>
    LET soup == args.fetch.soup
        content == ContentLines(ret)
        before_h1 == Len(LinesOf(soup, "title"))
        before_p == before_h1 + Len(LinesOf(soup, "h1")) + Len(LinesOf(soup, "h2"))
                      + Len(LinesOf(soup, "h3"))
    IN /\ IsPageSection(ret)
       /\ content = LinesOf(soup, "title") \o LinesOf(soup, "h1") \o LinesOf(soup, "h2")
                      \o LinesOf(soup, "h3") \o LinesOf(soup, "p") \o LinesOf(soup, "li")
       /\ SubSeq(content, before_h1 + 1, before_h1 + Len(LinesOf(soup, "h1")))
            = LinesOf(soup, "h1")
       /\ SubSeq(content, before_p + 1, before_p + Len(LinesOf(soup, "p")))
            = LinesOf(soup, "p")

C7_Witness ==
  /\ FetchedPage
  /\ Len(args.fetch.soup) = 2
  /\ args.fetch.soup[1] = Element("p", << <<"b", " ">>, <<" ">>, <<"c">> >>)
  /\ args.fetch.soup[2] = Element("h1", << <<" ", "a", " ">> >>)
  /\ ContentLines(ret) = << <<"#", " ", "a">>, <<"b", "c">> >>

----------------------------------------------------------------------------
(* C9 *)

LinkHeader(url) == <<"### URL: [">> \o url \o <<"](">> \o url \o <<")">>

IsTimestampLine(line) == Len(line) = 2 /\ line[1] = "Scraped at: "

EndsWithSeparator(section) ==
  /\ Len(section) >= 2
  /\ section[Len(section) - 1] = Rule
  /\ section[Len(section)] = Blank

\* C9 as stated: every section, of a failed extraction too, begins with the header
\* naming the URL as a Markdown link with the scrape time, and ends with the
\* separator.
C9_HeaderAlways ==
  Called =>
    /\ Len(ret) >= 5
    /\ ret[1] = Blank /\ ret[2] = Rule
    /\ ret[3] = LinkHeader(args.url)
    /\ IsTimestampLine(ret[4])
    /\ EndsWithSeparator(ret)

\* C9 amended: every section begins with a rule and ends with the separator; the
\* section of a fetched page has the Markdown link header and the scrape time
\* after the rule, the section of a failed fetch has one error line naming the URL
\* instead, with no link and no scrape time.
C9_HeaderOnSuccessOnly ==
  Called =>
    /\ Len(ret) >= 5
    /\ ret[1] = Blank /\ ret[2] = Rule
    /\ EndsWithSeparator(ret)
    /\ IF FetchedPage
       THEN /\ ret[3] = LinkHeader(args.url)
            /\ IsTimestampLine(ret[4])
            /\ Len(ret) >= 8
       ELSE /\ Len(ret) = 5
            /\ StartsWith(ret[3], <<"**Error accessing ">> \o args.url \o <<"**: ">>)
            /\ \A k \in 1..Len(ret) : ~IsTimestampLine(ret[k]) /\ ret[k] # LinkHeader(args.url)

C9_Witness ==
  /\ Called
  /\ args.fetch.kind = "response"
  /\ args.fetch.status = 400
  /\ args.fetch.soup # <<>>
  /\ Len(ret) = 5

----------------------------------------------------------------------------
(* C8 *)

TrailingTags == {"Scraping complete", "No valid URLs"}

\* the first n lines are about the first n input URLs, one line each
OneLinePerUrl(lines, n) ==
  /\ Len(lines) >= n
  /\ \A k \in 1..n : lines[k].url = urls[k] /\ lines[k].tag \in OutcomeTags

C8_LogState ==
  /\ OneLinePerUrl(log_lines, i_validate)
  /\ pc = "validate" => Len(log_lines) = i_validate
  /\ ValidationOver => Len(log_lines) \in {Len(urls), Len(urls) + 1}
  /\ Written(log_file) =>
       /\ pc = "done"
       /\ log_file[1] = log_lines
       /\ Len(log_file[1]) = Len(urls) + 1
       /\ OneLinePerUrl(log_file[1], Len(urls))
       /\ log_file[1][Len(urls) + 1].tag \in TrailingTags
       /\ log_file[1][Len(urls) + 1].tag = "Scraping complete"
            => /\ Written(output_file)
               /\ log_file[1][Len(urls) + 1].info # <<>>

C8_LogStep ==
  /\ IsPrefix(log_lines, log_lines')
  /\ Len(log_lines') <= Len(log_lines) + 1
  /\ log_file' # log_file =>
       /\ ~Written(log_file)
       /\ Len(log_lines) = Len(urls)
       /\ log_file' = << log_lines' >>
       /\ Len(log_lines') = Len(log_lines) + 1

\* C8: the validation log only grows at its end; after validation it holds one
\* line per input URL in input order, each with one of the four outcome tags; the
\* log file is those lines followed by exactly one trailing line, the completion
\* entry with the output path or the No valid URLs entry.
C8_LogIsOrderedAppendOnly == []C8_LogState /\ [][C8_LogStep]_vars

C8_Witness ==
  /\ Written(log_file)
  /\ Len(urls) = 3
  /\ log_file[1][1].tag = "Unreachable"
  /\ log_file[1][2].tag = "Valid"
  /\ log_file[1][3].tag = "Invalid format"
  /\ log_file[1][4].tag = "Scraping complete"

----------------------------------------------------------------------------
(* C10 *)

Phase ==
  CASE pc = "read" -> "Idle"
    [] pc = "select_dir" -> "URLsLoaded"
    [] pc = "validate" /\ i_validate < Len(urls) -> "URLsLoaded"
    [] pc = "validate" /\ i_validate = Len(urls) -> "Validated"
    [] pc = "scrape" /\ i_scrape < Len(valid_urls) -> "Validated"
    [] pc = "scrape" /\ i_scrape = Len(valid_urls) -> "Extracted"
    [] pc = "save_log" -> "ReportBuilt"
    [] pc = "done" /\ exit = "aborted" -> "Aborted"
    [] pc = "done" /\ exit = "delivered" -> "Delivered"
    [] pc = "done" /\ exit = "cancelled" -> "Cancelled"
    [] OTHER -> "Raised"

PhaseOrder ==
  { <<"Idle", "URLsLoaded">>, <<"URLsLoaded", "Validated">>, <<"Validated", "Aborted">>,
    <<"Validated", "Extracted">>, <<"Extracted", "ReportBuilt">>,
    <<"ReportBuilt", "Delivered">> }

\* the steps the code adds to the order of the phases
EarlyExits ==
  { <<"Idle", "Raised">>, <<"URLsLoaded", "Cancelled">>, <<"URLsLoaded", "Raised">> }

PhaseFacts ==
  /\ Gets # <<>> \/ results # <<>> => i_validate = Len(urls)
  /\ Written(output_file) =>
       /\ i_scrape = Len(valid_urls)
       /\ Len(output_file[1].sections) = Len(valid_urls)
  /\ Written(log_file) => pc = "done"
  /\ Phase = "Aborted" => Written(log_file) /\ ~Written(output_file)
  /\ Phase = "Delivered" => Written(log_file) /\ Written(output_file)

\* C10 as stated: a run on a readable input file goes through the phases in the
\* order Idle, URLsLoaded, Validated, then Aborted or Extracted, ReportBuilt,
\* Delivered, and ends in Aborted or in Delivered.
C10_EndsAbortedOrDelivered ==
  input_txt.exists =>
    /\ PhaseFacts
    /\ Phase \in {"Idle", "URLsLoaded", "Validated", "Aborted", "Extracted",
                  "ReportBuilt", "Delivered"}

C10_PhaseState ==
  input_txt.exists =>
    /\ PhaseFacts
    /\ pc # "done" => exit = "running"
    /\ Phase \in {"Cancelled", "Raised"} =>
         /\ ~Written(log_file) /\ ~Written(output_file)
         /\ results = <<>> /\ Gets = <<>>
    /\ Phase = "Cancelled" => net = <<>> /\ log_lines = <<>>
    /\ Phase = "Raised" =>
         /\ i_validate < Len(urls)
         /\ net # <<>>
         /\ net[Len(net)].method = "HEAD"
         /\ net[Len(net)].kind = "Exception"

C10_PhaseStep ==
  input_txt.exists =>
    /\ \/ Phase' = Phase
       \/ <<Phase, Phase'>> \in PhaseOrder \cup EarlyExits
    /\ (log_file' # log_file /\ Phase' = "Delivered") => Written(output_file)

\* C10 amended: a run on a readable input file goes through the phases in the
\* order Idle, URLsLoaded, Validated, then Aborted or Extracted, ReportBuilt,
\* Delivered, never back; it can also leave URLsLoaded for good before any
\* validation when no output folder is selected (nothing written), or during
\* validation when a probe raises an exception that is_valid_url does not catch
\* (nothing written); otherwise it ends in Aborted with the log written or in
\* Delivered with the report and then the log written.
C10_PhasesInOrder == []C10_PhaseState /\ [][C10_PhaseStep]_vars

C10_Witness ==
  /\ Phase = "Delivered"
  /\ Len(urls) = 3
  /\ Len(results) = 2

====
